---- MODULE Spec2Model ----
(***************************************************************************)
(* Model of streamlit_app.py: the SOL/USDT EMA-crossover dashboard.        *)
(*                                                                         *)
(* One run of the script is one action: the button handler, the cached     *)
(* fetch with its failover over three endpoints, the indicator columns,    *)
(* the signal logic and the two views of the signal log.                   *)
(*                                                                         *)
(* Numbers.  Prices are integers (ticks).  Every price of the frames the   *)
(* model draws is a multiple of ATR_PERIOD, so the rolling mean of         *)
(* ATR_PERIOD true ranges is an integer and `sum \div period` is exact.    *)
(* A pandas cell is NaN (the empty tuple) or Num(x) (a one-element tuple). *)
(*                                                                         *)
(* EMA.  Series.ewm(span).mean() is a pandas library call whose float64    *)
(* result is not recomputed here: each row of a fetched frame carries the  *)
(* value the call yields for that row (field ewm, indexed by span), and    *)
(* the values of the last two rows range over the orderings of the fast    *)
(* EMA against the slow one (below, tied, above).  The signal logic only   *)
(* ever compares these two rows.                                           *)
(*                                                                         *)
(* Closed candles.  A row of the klines answer carries close_time; the     *)
(* field closed of a row says whether that time had passed when the frame  *)
(* was fetched.  The script never reads it.                                *)
(***************************************************************************)
EXTENDS Integers, Sequences, FiniteSets, TLC

VARIABLES
    signals,    \* st.session_state.signals: the signal log
    cache,      \* the st.cache_data entry of fetch_data: a frame, or NoFrame
    df,         \* the enriched frame of the latest run, NoFrame if it stopped
    status,     \* "init" before the first run, then "ok" or "error" (st.stop)
    button,     \* the button that triggered the latest run
    error,      \* TRUE when the latest run displayed st.error
    appended,   \* how many signals.append calls the latest run made
    plotted,    \* the signals the latest run drew: signals[-10:]
    table,      \* the rows of the latest run's history table, top first
    emitted     \* per candle time, the append events that carried it so far:
                \* "never", "once" or "again" (more than once)

vars == <<signals, cache, df, status, button, error, appended, plotted, table,
          emitted>>

----------------------------------------------------------------------------
(* Program constants *)

EMA_FAST == 9
EMA_SLOW == 21
ATR_PERIOD == 14
NumUrls == 3
TailLen == 10

(* Bounds of the model *)

MaxLen == 15      \* longest fetched frame
MaxLog == 3       \* a run that would grow the log beyond this is not taken

----------------------------------------------------------------------------
(* pandas cells and columns *)

NaN == <<>>
Num(x) == <<x>>
isnan(c) == c = NaN
Val(c) == c[1]

Abs(x) == IF x < 0 THEN -x ELSE x
Max2(a, b) == IF a >= b THEN a ELSE b

\* Series.shift() of column name, read at row i: the value of the row before,
\* NaN on the first row
Shifted(frame, name, i) == IF i = 1 THEN NaN ELSE Num(frame[i - 1][name])

\* |x - c| for a cell c; NaN if c is
AbsDiff(x, c) == IF isnan(c) THEN NaN ELSE Num(Abs(x - Val(c)))

\* max of two cells as DataFrame.max(axis=1) takes it: NaN cells are skipped
MaxSkipNa(x, y) ==
    IF isnan(x) THEN y
    ELSE IF isnan(y) THEN x
    ELSE Num(Max2(Val(x), Val(y)))

\* TrueRange whose row-wise max does not skip NaN: no true range on row 1
TrueRangeStrict(frame, i) ==
    IF i = 1 THEN NaN
    ELSE Num(Max2(Max2(frame[i].high - frame[i].low,
                       Abs(frame[i].high - frame[i - 1].close)),
                  Abs(frame[i].low - frame[i - 1].close)))

\* row i of the true range column of atr(): the row-wise max of tr1, tr2, tr3
TrueRange(frame, i) ==
    LET tr1 == Num(frame[i].high - frame[i].low)
        tr2 == AbsDiff(frame[i].high, Shifted(frame, "close", i))
        tr3 == AbsDiff(frame[i].low, Shifted(frame, "close", i))
    IN MaxSkipNa(MaxSkipNa(tr1, tr2), tr3)

RECURSIVE SumRange(_, _, _)
\* the sum of the true ranges of rows lo..hi
SumRange(frame, lo, hi) ==
    IF lo > hi THEN 0 ELSE Val(TrueRange(frame, lo)) + SumRange(frame, lo + 1, hi)

\* row i of tr.rolling(period).mean(): min_periods = period, so a window that
\* is not full, or that holds a NaN, gives NaN
RollingMean(frame, period, i) ==
    IF i < period \/ \E j \in (i - period + 1)..i : isnan(TrueRange(frame, j))
    THEN NaN
    ELSE Num(SumRange(frame, i - period + 1, i) \div period)

RECURSIVE AtrRows(_, _, _)
\* rows 1..n of the column atr() returns
AtrRows(frame, period, n) ==
    IF n = 0 THEN <<>>
    ELSE Append(AtrRows(frame, period, n - 1), RollingMean(frame, period, n))

atr(frame, period) == AtrRows(frame, period, Len(frame))

RECURSIVE EwmRows(_, _, _)
\* rows 1..n of Series.ewm(span).mean() of the close column (see the header)
EwmRows(frame, span, n) ==
    IF n = 0 THEN <<>> ELSE Append(EwmRows(frame, span, n - 1), frame[n].ewm[span])

ewm_mean(frame, span) == EwmRows(frame, span, Len(frame))

RECURSIVE WithColumns(_, _, _, _, _)
\* rows 1..n of df once the three indicator columns are assigned
WithColumns(frame, fast, slow, a, n) ==
    IF n = 0 THEN <<>>
    ELSE Append(WithColumns(frame, fast, slow, a, n - 1),
                [time |-> frame[n].time, high |-> frame[n].high, low |-> frame[n].low,
                 close |-> frame[n].close, closed |-> frame[n].closed,
                 ema_fast |-> fast[n], ema_slow |-> slow[n], atr |-> a[n]])

\* df with ema_fast, ema_slow and atr
Enrich(frame) ==
    WithColumns(frame, ewm_mean(frame, EMA_FAST), ewm_mean(frame, EMA_SLOW),
                atr(frame, ATR_PERIOD), Len(frame))

----------------------------------------------------------------------------
(* Signal logic *)

\* (a / c) * 100 < k, for a close c > 0
PctBelow(a, c, k) == a * 100 < k * c

\* Margin with the thresholds taken inclusively
MarginInclusive(a, c) ==
    IF a * 100 <= 2 * c THEN "20x"
    ELSE IF a * 100 <= 3 * c THEN "10x"
    ELSE IF a * 100 <= 5 * c THEN "5x"
    ELSE "3x"

\* the leverage label chosen from atr_pct
Margin(a, c) ==
    IF PctBelow(a, c, 2) THEN "20x"
    ELSE IF PctBelow(a, c, 3) THEN "10x"
    ELSE IF PctBelow(a, c, 5) THEN "5x"
    ELSE "3x"

BuySignal(last, margin) ==
    [type |-> "BUY", time |-> last.time, price |-> last.close,
     tp |-> last.close + 2 * Val(last.atr), sl |-> last.close - Val(last.atr),
     margin |-> margin]

\* SellSignal with the levels of a BUY
SellSignalAsBuy(last, margin) ==
    [type |-> "SELL", time |-> last.time, price |-> last.close,
     tp |-> last.close + 2 * Val(last.atr), sl |-> last.close - Val(last.atr),
     margin |-> margin]

SellSignal(last, margin) ==
    [type |-> "SELL", time |-> last.time, price |-> last.close,
     tp |-> last.close - 2 * Val(last.atr), sl |-> last.close + Val(last.atr),
     margin |-> margin]

\* CrossUp that takes a tie on the earlier candle for a crossing
CrossUpFromTie(prev, last) ==
    prev.ema_fast <= prev.ema_slow /\ last.ema_fast > last.ema_slow

CrossUp(prev, last) ==
    prev.ema_fast < prev.ema_slow /\ last.ema_fast > last.ema_slow

CrossDown(prev, last) ==
    prev.ema_fast > prev.ema_slow /\ last.ema_fast < last.ema_slow

\* the check made before each append
IsNew(log, last) == log = <<>> \/ log[Len(log)].time # last.time

\* Detect that repaints: a crossing on a candle whose signal is already the
\* last entry overwrites that entry with the revised signal
DetectRepaint(log, e) ==
    IF Len(e) > 2 /\ ~isnan(e[Len(e)].atr)
    THEN LET prev == e[Len(e) - 1]
             last == e[Len(e)]
             margin == Margin(Val(last.atr), last.close)
         IN IF CrossUp(prev, last)
            THEN IF IsNew(log, last) THEN Append(log, BuySignal(last, margin))
                 ELSE [log EXCEPT ![Len(log)] = BuySignal(last, margin)]
            ELSE IF CrossDown(prev, last)
            THEN IF IsNew(log, last) THEN Append(log, SellSignal(last, margin))
                 ELSE [log EXCEPT ![Len(log)] = SellSignal(last, margin)]
            ELSE log
    ELSE log

\* the signal logic: the log after it ran on the enriched frame e
Detect(log, e) ==
    IF Len(e) > 2 /\ ~isnan(e[Len(e)].atr)
    THEN LET prev == e[Len(e) - 1]
             last == e[Len(e)]
             margin == Margin(Val(last.atr), last.close)
         IN IF CrossUp(prev, last)
            THEN IF IsNew(log, last) THEN Append(log, BuySignal(last, margin)) ELSE log
            ELSE IF CrossDown(prev, last)
            THEN IF IsNew(log, last) THEN Append(log, SellSignal(last, margin)) ELSE log
            ELSE log
    ELSE log

----------------------------------------------------------------------------
(* Views *)

\* s[-n:]
LastN(s, n) == IF Len(s) <= n THEN s ELSE SubSeq(s, Len(s) - n + 1, Len(s))

\* pd.DataFrame(s)[::-1]
Reverse(s) == [i \in 1..Len(s) |-> s[Len(s) + 1 - i]]

----------------------------------------------------------------------------
(* Fetch *)

NoFrame == <<>>

\* what a call yields: a frame, or an exception
Ok(f) == [ok |-> TRUE, frame |-> f]
Raised == [ok |-> FALSE, frame |-> NoFrame]

RECURSIVE TryUrls(_, _)
\* the loop over the urls: the frame of the first endpoint that answers, or
\* the RuntimeError when every endpoint raised
TryUrls(resp, i) ==
    IF i > NumUrls THEN Raised
    ELSE IF ~resp[i].ok THEN TryUrls(resp, i + 1)
    ELSE resp[i]

\* the uncached body of fetch_data, given what each endpoint answers
fetch_data(resp) == TryUrls(resp, 1)

----------------------------------------------------------------------------
(* The frames an endpoint can answer with *)

Unit == ATR_PERIOD
Close0 == 200 * Unit

\* a candle that closes at its low, with the given range, k units above Close0
Shape(range, k) ==
    [high |-> Close0 + (k + range) * Unit, low |-> Close0 + k * Unit,
     close |-> Close0 + k * Unit]

Order == {"below", "tied", "above"}
EmaFastAt(o) == Close0 + (CASE o = "below" -> -4 [] o = "tied" -> 0 [] o = "above" -> 4) * Unit

\* row i of a frame of n candles whose latest open time is t: row 1 has shape
\* first, the latest row shape last, the others shape base; the latest row is
\* closed or still forming; po, lo: how the fast EMA lies to the slow one on
\* the last two rows
Candle(i, n, t, first, base, last, po, lo, closed) ==
    LET s == IF i = n THEN last ELSE IF i = 1 THEN first ELSE base
        fast == IF i = n THEN EmaFastAt(lo)
                ELSE IF i = n - 1 THEN EmaFastAt(po)
                ELSE Close0
    IN [time |-> t - (n - i), high |-> s.high, low |-> s.low, close |-> s.close,
        closed |-> (i < n \/ closed),
        ewm |-> (EMA_FAST :> fast) @@ (EMA_SLOW :> Close0)]

RECURSIVE Candles(_, _, _, _, _, _, _, _, _)
\* rows 1..i of that frame
Candles(i, n, t, first, base, last, po, lo, closed) ==
    IF i = 0 THEN <<>>
    ELSE Append(Candles(i - 1, n, t, first, base, last, po, lo, closed),
                Candle(i, n, t, first, base, last, po, lo, closed))

Frame(n, t, first, base, last, po, lo, closed) ==
    Candles(n, n, t, first, base, last, po, lo, closed)

\* the open time of the latest candle of a fetched frame: a candle period and
\* the one after it, in either order from one fetch to the next
Times == {1, 2}

\* what the three endpoints answer: the first k raise, the others answer f
Answers(k, f) == [i \in 1..NumUrls |-> IF i <= k THEN Raised ELSE Ok(f)]

\* the frames of a session: candles of one shape, the latest one still
\* forming (the klines answer ends with the candle in progress); 2 rows, one
\* row short of a defined ATR, or just enough rows for it
SessionLens == {2, ATR_PERIOD - 1, ATR_PERIOD}
SessionOrders ==
    { <<"below", "above">>, <<"above", "below">>, <<"tied", "above">>,
      <<"below", "below">> }
SessionFrame(n, t, o) ==
    Frame(n, t, Shape(4, 0), Shape(4, 0), Shape(4, 0), o[1], o[2], FALSE)

----------------------------------------------------------------------------
(* One run of the script *)

\* the append events of a time, after one more
Bump(c) == IF c = "never" THEN "once" ELSE "again"

\* Stop that also resets the session's log
StopAndReset(log, c) ==
    /\ signals' = <<>>
    /\ cache' = c
    /\ df' = NoFrame
    /\ status' = "error"
    /\ error' = TRUE
    /\ appended' = 0
    /\ plotted' = <<>>
    /\ table' = <<>>
    /\ emitted' = emitted

\* the except branch of the fetch: st.error, st.stop
Stop(log, c) ==
    /\ signals' = log
    /\ cache' = c
    /\ df' = NoFrame
    /\ status' = "error"
    /\ error' = TRUE
    /\ appended' = 0
    /\ plotted' = <<>>
    /\ table' = <<>>
    /\ emitted' = emitted

\* the script from the indicator columns to the history table: what it
\* leaves in the log and in df, and what it shows
Pass(log, frame) ==
    LET e == Enrich(frame)
        log1 == Detect(log, e)
    IN [signals |-> log1, df |-> e, appended |-> Len(log1) - Len(log),
        plotted |-> LastN(log1, TailLen), table |-> Reverse(log1)]

\* a run whose fetch returned frame
Main(log, frame) ==
    \E out \in {Pass(log, frame)} :
       /\ Len(out.signals) <= MaxLog
       /\ signals' = out.signals
       /\ cache' = frame
       /\ df' = out.df
       /\ status' = "ok"
       /\ error' = FALSE
       /\ appended' = out.appended
       /\ plotted' = out.plotted
       /\ table' = out.table
       /\ emitted' =
            IF out.appended = 0 THEN emitted
            ELSE LET t == out.signals[Len(out.signals)].time
                 IN [emitted EXCEPT ![t] = Bump(@)]

\* the cached fetch_data and the rest of the script, after the button handlers
\* left the log as log and the cache entry as c; resp is what the endpoints
\* answer when they are asked
Script(log, c, resp) ==
    IF c # NoFrame
    THEN Main(log, c)
    ELSE \E r \in {fetch_data(resp)} :
            IF r.ok THEN Main(log, r.frame) ELSE Stop(log, c)

\* the script has not run yet
Fresh == status = "init"

\* the first run of the session: the page loads, no button is pressed
Load(resp) ==
    /\ Fresh
    /\ button' = "none"
    /\ Script(signals, cache, resp)

\* Refresh Data: the cache is cleared and the script reruns
RefreshData(resp) ==
    /\ ~Fresh
    /\ button' = "refresh"
    /\ Script(signals, NoFrame, resp)

\* Clear Signals: the log is emptied and the run goes on
ClearSignals(resp) ==
    /\ ~Fresh
    /\ button' = "clear"
    /\ Script(<<>>, cache, resp)

\* the ttl of the cache entry runs out
CacheExpire ==
    /\ cache # NoFrame
    /\ cache' = NoFrame
    /\ UNCHANGED <<signals, df, status, button, error, appended, plotted, table,
                   emitted>>

Init ==
    /\ signals = <<>>
    /\ cache = NoFrame
    /\ df = NoFrame
    /\ status = "init"
    /\ button = "none"
    /\ error = FALSE
    /\ appended = 0
    /\ plotted = <<>>
    /\ table = <<>>
    /\ emitted = [t \in Times |-> "never"]

\* the endpoints are asked only when the cache holds no entry
Asked(c) == c = NoFrame

AllRaise == Answers(NumUrls, NoFrame)

\* in a session the first two endpoints raise and the third answers, or all
\* three raise
SessionFails == NumUrls - 1

Next ==
    \/ /\ Fresh
       /\ \E n \in SessionLens, t \in Times, o \in SessionOrders :
             Load(Answers(SessionFails, SessionFrame(n, t, o)))
    \/ Load(AllRaise)
    \/ /\ ~Fresh
       /\ \E n \in SessionLens, t \in Times, o \in SessionOrders :
             RefreshData(Answers(SessionFails, SessionFrame(n, t, o)))
    \/ RefreshData(AllRaise)
    \/ /\ ~Asked(cache)
       /\ ClearSignals(AllRaise)
    \/ /\ Asked(cache)
       /\ \E n \in SessionLens, t \in Times, o \in SessionOrders :
             ClearSignals(Answers(SessionFails, SessionFrame(n, t, o)))
    \/ /\ Asked(cache)
       /\ ClearSignals(AllRaise)
    \/ CacheExpire

Spec == Init /\ [][Next]_vars

----------------------------------------------------------------------------
(* The first run alone, over a wider family of frames: every length up to   *)
(* MaxLen, candles of several ranges, a latest candle that gaps away from   *)
(* the close before it, every EMA ordering, every failover depth.           *)

Ranges == {3, 4, 5, 6, 8, 10, 12}
FirstRanges == {6}
Gaps == {-10, 0, 10}

NextLoad ==
    \/ /\ Fresh
       /\ \E n \in 1..MaxLen, t \in {1}, r \in Ranges, g \in Gaps, po \in Order,
             lo \in Order, c \in BOOLEAN, k \in 0..(NumUrls - 1) :
             \E r1 \in FirstRanges \cup {r} :
               Load(Answers(k, Frame(n, t, Shape(r1, 0), Shape(r, 0), Shape(r, g),
                                     po, lo, c)))
    \/ Load(AllRaise)

SpecLoad == Init /\ [][NextLoad]_vars

----------------------------------------------------------------------------
(* Properties *)

\* the last two rows of the latest run's frame
PrevRow == df[Len(df) - 1]
LastRow == df[Len(df)]

\* the latest entry of the log
Newest == signals[Len(signals)]

\* the log the latest run started from, seen from a step: Clear Signals
\* empties it first
LogAtFetch == IF button' = "clear" THEN <<>> ELSE signals

\* C1: no two entries of the signal log carry the same time.
C1_NoDuplicateTimes ==
    \A i, j \in 1..Len(signals) : i # j => signals[i].time # signals[j].time

\* C2: a run appends a Signal only when the last two rows of its frame are
\* both closed candles.
C2_OnlyClosedCandles ==
    appended = 1 => LastRow.closed /\ PrevRow.closed

\* C3: over the session no candle time is carried by more than one append
\* event, and a run that sees a crossing on a frame of at least 3 rows with a
\* defined ATR leaves exactly one append event for the latest candle's time.
C3_OnceOverTheSession ==
    /\ \A t \in Times : emitted[t] # "again"
    /\ (status = "ok" /\ Len(df) > 2 /\ ~isnan(df[Len(df)].atr)
            /\ (CrossUp(PrevRow, LastRow) \/ CrossDown(PrevRow, LastRow)))
        => emitted[LastRow.time] = "once"

\* C4: a run that Clear Signals did not trigger leaves the log as it was, or
\* as it was with one entry added at the end.
C4_NonRepainting ==
    [][button' # "clear" =>
          \/ signals' = signals
          \/ /\ Len(signals') = Len(signals) + 1
             /\ SubSeq(signals', 1, Len(signals)) = signals]_vars

\* a Refresh run on a frame whose latest candle produced the newest signal
\* and, revised, no longer crosses: the signal is still there
C4_Witness ==
    /\ status = "ok" /\ button = "refresh" /\ appended = 0
    /\ Len(signals) >= 1 /\ Len(df) > 2 /\ ~isnan(LastRow.atr)
    /\ Newest.time = LastRow.time
    /\ ~CrossUp(PrevRow, LastRow) /\ ~CrossDown(PrevRow, LastRow)

\* C5: a run whose fetch failed on every endpoint shows the error, computes
\* no indicator column, appends nothing and leaves the log as it was when the
\* fetch was attempted; it draws no signal and no table.
C5_FailureIsNoUpdate ==
    [][status' = "error" =>
          /\ error'
          /\ df' = NoFrame
          /\ appended' = 0
          /\ signals' = LogAtFetch
          /\ emitted' = emitted
          /\ plotted' = <<>> /\ table' = <<>>]_vars

\* a failed Refresh run that left a non-empty log in place
C5_Witness ==
    status = "error" /\ error /\ button = "refresh" /\ Len(signals) >= 1

\* C6: after a run that Clear Signals triggered the log is empty, and so are
\* the plotted tail and the history table.
C6_ClearLeavesNothing ==
    button = "clear" => signals = <<>> /\ plotted = <<>> /\ table = <<>>

\* C7: the Signal a run appends is a BUY exactly on an upward crossing and a
\* SELL exactly on a downward one, carries the latest candle's time and close,
\* and has tp = price + 2 atr, sl = price - atr for a BUY and
\* tp = price - 2 atr, sl = price + atr for a SELL.
C7_SignalContent ==
    appended = 1 =>
        LET s == Newest
            a == Val(LastRow.atr)
            up == PrevRow.ema_fast < PrevRow.ema_slow /\ LastRow.ema_fast > LastRow.ema_slow
            down == PrevRow.ema_fast > PrevRow.ema_slow /\ LastRow.ema_fast < LastRow.ema_slow
        IN /\ s.type \in {"BUY", "SELL"}
           /\ s.type = "BUY" <=> up
           /\ s.type = "SELL" <=> down
           /\ s.time = LastRow.time
           /\ s.price = LastRow.close
           /\ s.type = "BUY" => s.tp = s.price + 2 * a /\ s.sl = s.price - a
           /\ s.type = "SELL" => s.tp = s.price - 2 * a /\ s.sl = s.price + a

\* a SELL appended on a latest candle that closed away from the close before
C7_Witness ==
    /\ appended = 1 /\ Newest.type = "SELL"
    /\ LastRow.close # PrevRow.close
    /\ Newest.tp < Newest.price /\ Newest.price < Newest.sl

\* C8: a run appends exactly one Signal when its frame has at least 3 rows,
\* the latest ATR is defined, the last two rows form a strict crossing and the
\* log is empty or its last entry has another time than the latest candle;
\* in every other case it appends nothing.
C8_EmissionCondition ==
    [][~CacheExpire =>
          LET log == LogAtFetch
              fires ==
                /\ status' = "ok"
                /\ Len(df') >= 3
                /\ ~isnan(df'[Len(df')].atr)
                /\ LET prev == df'[Len(df') - 1]
                       last == df'[Len(df')]
                   IN /\ \/ prev.ema_fast < prev.ema_slow /\ last.ema_fast > last.ema_slow
                         \/ prev.ema_fast > prev.ema_slow /\ last.ema_fast < last.ema_slow
                      /\ log = <<>> \/ log[Len(log)].time # last.time
          IN /\ appended' = (IF fires THEN 1 ELSE 0)
             /\ Len(signals') = Len(log) + appended']_vars

\* a Signal appended to a log that already held one
C8_Witness ==
    appended = 1 /\ Len(signals) >= 2 /\ button # "clear"

\* C9: the leverage hint of an appended Signal follows atr_pct = 100 * atr /
\* close of the same run: below 2 it is 20x, from 2 to below 3 10x, from 3 to
\* below 5 5x, from 5 on 3x.
C9_LeverageHint ==
    appended = 1 =>
        LET a == 100 * Val(LastRow.atr)
            c == LastRow.close
            m == Newest.margin
        IN /\ a < 2 * c => m = "20x"
           /\ (2 * c <= a /\ a < 3 * c) => m = "10x"
           /\ (3 * c <= a /\ a < 5 * c) => m = "5x"
           /\ 5 * c <= a => m = "3x"

\* a Signal appended with atr_pct exactly 2
C9_Witness ==
    /\ appended = 1
    /\ 100 * Val(LastRow.atr) = 2 * LastRow.close
    /\ Newest.margin = "10x"

\* C10 as stated: atr is null on the first ATR_PERIOD + 1 rows (indices 0 to
\* 13), hence everywhere in a frame shorter than ATR_PERIOD + 1, and a run on
\* such a frame appends nothing.
C10_WarmUpAsStated ==
    status = "ok" =>
        /\ \A i \in 1..Len(df) : i <= ATR_PERIOD => isnan(df[i].atr)
        /\ Len(df) < ATR_PERIOD + 1 => appended = 0

\* the true range of row i of df when row 1 (index 0) counts with high - low
C10_TrueRange(i) ==
    IF i = 1 THEN df[1].high - df[1].low
    ELSE Max2(Max2(df[i].high - df[i].low, Abs(df[i].high - df[i - 1].close)),
              Abs(df[i].low - df[i - 1].close))

RECURSIVE C10_SumTrueRange(_)
C10_SumTrueRange(i) ==
    IF i = 0 THEN 0 ELSE C10_TrueRange(i) + C10_SumTrueRange(i - 1)

\* C10 amended: the true range of index 0 is high - low; atr is null exactly
\* on the first ATR_PERIOD - 1 rows (indices 0 to 12) and defined from index
\* 13 on, where it is the mean of the true ranges of indices 0 to 13; in a
\* frame shorter than ATR_PERIOD it is null everywhere and a run on such a
\* frame appends nothing.
C10_WarmUp ==
    status = "ok" =>
        /\ \A i \in 1..Len(df) : isnan(df[i].atr) <=> i < ATR_PERIOD
        /\ Len(df) >= ATR_PERIOD =>
              ATR_PERIOD * Val(df[ATR_PERIOD].atr) = C10_SumTrueRange(ATR_PERIOD)
        /\ Len(df) < ATR_PERIOD => appended = 0

\* a run on a frame of exactly ATR_PERIOD rows that appended a Signal
C10_Witness ==
    status = "ok" /\ Len(df) = ATR_PERIOD /\ appended = 1

====
